---- MODULE Spec2Model ----
(***************************************************************************)
(* Guide Creator Flow (guide_creator_flow/main.py): the three-stage flow   *)
(* get_user_input -> create_guide_outline -> write_and_compile_guide.      *)
(*                                                                         *)
(* Representation.  A Python str is a Text: a sequence of chunks, each     *)
(* chunk a string; string concatenation is \o.  The audience input is a    *)
(* Text whose chunks are single characters, so that str.lower() is a       *)
(* character map.  A Python dict is a sequence of <<key, value>> pairs in  *)
(* insertion order.  A JSON value is a tagged record (JStr, JNull, JList,  *)
(* JObj).  A file is [exists, content].  print() calls are not modelled.   *)
(***************************************************************************)
EXTENDS Integers, Sequences, FiniteSets, TLC

VARIABLES
    pc,                 \* position of the flow
    error,              \* the exception that aborted the run, or "none"
    topic,              \* state.topic
    audience_level,     \* state.audience_level
    guide_outline,      \* state.guide_outline
    sections_content,   \* state.sections_content
    audience,           \* get_user_input: local `audience`
    last_input,         \* history: the text last typed at the audience prompt
    reprompts,          \* history: how often the audience prompt was repeated
    started,            \* history: the stages started, in order
    llm_calls,          \* history: the messages of every llm.call
    outline_dict,       \* create_guide_outline: local `outline_dict`
    outline,            \* write_and_compile_guide: parameter `outline`
    completed_sections, \* write_and_compile_guide: local `completed_sections`
    idx,                \* write_and_compile_guide: position of the section loop
    guide_content,      \* write_and_compile_guide: local `guide_content`
    calls,              \* history: the inputs of every ContentCrew kickoff
    authored,           \* history: the result.raw of every kickoff that returned
    output_dir,         \* whether the directory output/ exists
    outline_file,       \* output/guide_outline.json
    guide_file,         \* output/complete_guide.md
    guide_opens,        \* history: how often complete_guide.md was opened for writing
    requests,           \* server: history of the bodies POSTed to /create-guide
    raised,             \* server: history, per request, of what create_guide's try block raised
    responses,          \* server: the response sent for each request, in order
    tasks,              \* server: the background tasks added, with their status
    tasks_store         \* server: the module-level dict tasks_store

\* the variables of one run of the flow (main.py)
flow_vars == <<pc, error, topic, audience_level, guide_outline, sections_content,
               audience, last_input, reprompts, started, llm_calls, outline_dict,
               outline, completed_sections, idx, guide_content, calls, authored,
               output_dir, outline_file, guide_file, guide_opens>>

\* the variables of the HTTP trigger (server.py)
http_vars == <<requests, raised, responses, tasks, tasks_store>>

vars == <<flow_vars, http_vars>>

-----------------------------------------------------------------------------
(* Bounds of the model.                                                    *)

MaxSections == 3    \* longest sections list the model's responses carry
MaxReprompts == 2   \* most rejected audience inputs in one run
MaxRequests == 2    \* most requests the HTTP trigger receives

-----------------------------------------------------------------------------
(* Python values.                                                          *)

None == [none |-> TRUE]

NoFile == [exists |-> FALSE, content |-> <<>>]

UpperLetters == <<"A","B","C","D","E","F","G","H","I","J","K","L","M",
                  "N","O","P","Q","R","S","T","U","V","W","X","Y","Z">>
LowerLetters == <<"a","b","c","d","e","f","g","h","i","j","k","l","m",
                  "n","o","p","q","r","s","t","u","v","w","x","y","z">>

LowerChar(c) ==
    IF \E i \in 1..Len(UpperLetters) : UpperLetters[i] = c
    THEN LowerLetters[CHOOSE i \in 1..Len(UpperLetters) : UpperLetters[i] = c]
    ELSE c

\* mutant: the input is compared as typed
LowerNoop(s) == s

\* str.lower()
Lower(s) == [i \in 1..Len(s) |-> LowerChar(s[i])]

\* ["beginner", "intermediate", "advanced"]
AudienceLevels ==
    { <<"b","e","g","i","n","n","e","r">>,
      <<"i","n","t","e","r","m","e","d","i","a","t","e">>,
      <<"a","d","v","a","n","c","e","d">> }

\* dict: key in d, d.get(key, default), d[key] = value
HasKey(d, k) == \E i \in 1..Len(d) : d[i][1] = k
DictGet(d, k, default) ==
    IF HasKey(d, k) THEN d[CHOOSE i \in 1..Len(d) : d[i][1] = k][2] ELSE default
DictSet(d, k, v) ==
    IF HasKey(d, k)
    THEN [i \in 1..Len(d) |-> IF d[i][1] = k THEN <<k, v>> ELSE d[i]]
    ELSE Append(d, <<k, v>>)
DictKeys(d) == {d[i][1] : i \in 1..Len(d)}

\* JSON values
JNull == [t |-> "null"]
JStr(s) == [t |-> "str", v |-> s]
JList(l) == [t |-> "list", v |-> l]
JObj(d) == [t |-> "obj", v |-> d]

-----------------------------------------------------------------------------
(* What the user types and what the external capabilities answer.          *)

Topics == { <<"Home Gardening">>, <<>> }

AudienceInputs ==
    { <<"b","e","g","i","n","n","e","r">>,
      <<"i","n","t","e","r","m","e","d","i","a","t","e">>,
      <<"a","d","v","a","n","c","e","d">>,
      <<"B","e","g","i","n","n","e","r">>,
      <<"A","D","V","A","N","C","E","D">>,
      <<"e","x","p","e","r","t">>,
      <<"b","e","g","i","n","n","e","r"," ">>,
      <<>> }

SectionPool ==
    { [title |-> <<"Getting Started">>, description |-> <<"First steps">>],
      [title |-> <<"Tools">>, description |-> <<"What to buy">>] }

SectionLists == UNION { [1..n -> SectionPool] : n \in 0..MaxSections }

SectionJson(s) ==
    JObj(<< <<"title", JStr(s.title)>>, <<"description", JStr(s.description)>> >>)

OutlineJson(secs) ==
    JObj(<< <<"title", JStr(<<"The Guide">>)>>,
            <<"introduction", JStr(<<"Intro text">>)>>,
            <<"target_audience", JStr(<<"Hobbyists">>)>>,
            <<"sections", JList([i \in 1..Len(secs) |-> SectionJson(secs[i])])>>,
            <<"conclusion", JStr(<<"Closing text">>)>> >>)

\* A response is the text llm.call returns: JSON text carrying a value, or
\* text that is not JSON.
JsonText(j) == [json |-> TRUE, value |-> j]
NotJsonText == [json |-> FALSE, value |-> JNull]

BadResponses ==
    { NotJsonText,
      \* JSON, but not an object
      JsonText(JList(<<>>)),
      \* conclusion missing
      JsonText(JObj(<< <<"title", JStr(<<"The Guide">>)>>,
                       <<"introduction", JStr(<<"Intro text">>)>>,
                       <<"target_audience", JStr(<<"Hobbyists">>)>>,
                       <<"sections", JList(<<>>)>> >>)),
      \* sections is not a list
      JsonText(JObj(<< <<"title", JStr(<<"The Guide">>)>>,
                       <<"introduction", JStr(<<"Intro text">>)>>,
                       <<"target_audience", JStr(<<"Hobbyists">>)>>,
                       <<"sections", JNull>>,
                       <<"conclusion", JStr(<<"Closing text">>)>> >>)),
      \* a section without description
      JsonText(JObj(<< <<"title", JStr(<<"The Guide">>)>>,
                       <<"introduction", JStr(<<"Intro text">>)>>,
                       <<"target_audience", JStr(<<"Hobbyists">>)>>,
                       <<"sections", JList(<< JObj(<< <<"title", JStr(<<"Tools">>)>> >>) >>)>>,
                       <<"conclusion", JStr(<<"Closing text">>)>> >>)),
      \* introduction is null
      JsonText(JObj(<< <<"title", JStr(<<"The Guide">>)>>,
                       <<"introduction", JNull>>,
                       <<"target_audience", JStr(<<"Hobbyists">>)>>,
                       <<"sections", JList(<<>>)>>,
                       <<"conclusion", JStr(<<"Closing text">>)>> >>)) }

\* a well-shaped object with a key GuideOutline does not declare
ExtraKeyResponse ==
    JsonText(JObj(Append(OutlineJson(<<>>).v, <<"notes", JStr(<<"unused">>)>>)))

Responses ==
    { JsonText(OutlineJson(secs)) : secs \in SectionLists }
        \cup BadResponses \cup {ExtraKeyResponse}

AuthorResults == { <<"Body A">>, <<"Body B">> }

-----------------------------------------------------------------------------
(* JSON: json.loads, json.dump(indent=2) and the GuideOutline model.       *)

\* json.loads(response): raises on text that is not JSON
JsonLoads(response) == [ok |-> response.json, value |-> response.value]

\* newline and indentation json.dump(indent=2) writes before an item at depth n
NewlineIndent(n) == <<"\n">> \o [i \in 1..n |-> "  "]

RECURSIVE JsonDump(_, _), JsonDumpItems(_, _, _), JsonDumpPairs(_, _, _)
\* mutant: the last item of a list is not written
JsonDumpItemsButLast(l, i, n) ==
    IF i >= Len(l) THEN <<>>
    ELSE NewlineIndent(n) \o JsonDump(l[i], n)
           \o (IF i + 1 < Len(l) THEN <<",">> ELSE <<>>)
           \o JsonDumpItems(l, i + 1, n)

JsonDumpItems(l, i, n) ==
    IF i > Len(l) THEN <<>>
    ELSE NewlineIndent(n) \o JsonDump(l[i], n)
           \o (IF i < Len(l) THEN <<",">> ELSE <<>>)
           \o JsonDumpItems(l, i + 1, n)
JsonDumpPairs(d, i, n) ==
    IF i > Len(d) THEN <<>>
    ELSE NewlineIndent(n) \o <<"\"", d[i][1], "\"", ": ">> \o JsonDump(d[i][2], n)
           \o (IF i < Len(d) THEN <<",">> ELSE <<>>)
           \o JsonDumpPairs(d, i + 1, n)
JsonDump(j, n) ==
    CASE j.t = "null" -> <<"null">>
      [] j.t = "str"  -> <<"\"">> \o j.v \o <<"\"">>
      [] j.t = "list" ->
            IF Len(j.v) = 0 THEN <<"[]">>
            ELSE <<"[">> \o JsonDumpItems(j.v, 1, n + 1) \o NewlineIndent(n) \o <<"]">>
      [] j.t = "obj"  ->
            IF Len(j.v) = 0 THEN <<"{}">>
            ELSE <<"{">> \o JsonDumpPairs(j.v, 1, n + 1) \o NewlineIndent(n) \o <<"}">>

\* json.loads on the text of a file: the chunks "\n" and "  " between the
\* tokens are white space; a string runs from one quote chunk to the next; an
\* object keeps the last value of a key. The result is [ok, value, next].
JsonFail == [ok |-> FALSE, value |-> JNull, next |-> 0]

RECURSIVE SkipSpace(_, _)
SkipSpace(toks, p) ==
    IF p <= Len(toks) /\ toks[p] \in {"\n", "  "} THEN SkipSpace(toks, p + 1) ELSE p

\* the chunk after the opening quote at p up to the closing quote
JsonParseString(toks, p) ==
    IF \E q \in (p + 1)..Len(toks) : toks[q] = "\""
    THEN LET q == CHOOSE q \in (p + 1)..Len(toks) :
                    /\ toks[q] = "\""
                    /\ \A m \in (p + 1)..(q - 1) : toks[m] # "\""
         IN [ok |-> TRUE, value |-> JStr(SubSeq(toks, p + 1, q - 1)), next |-> q + 1]
    ELSE JsonFail

RECURSIVE JsonParseValue(_, _), JsonParseItems(_, _, _), JsonParsePairs(_, _, _)
JsonParseValue(toks, p0) ==
    LET p == SkipSpace(toks, p0) IN
    IF p > Len(toks) THEN JsonFail
    ELSE CASE toks[p] = "null" -> [ok |-> TRUE, value |-> JNull, next |-> p + 1]
           [] toks[p] = "\""   -> JsonParseString(toks, p)
           [] toks[p] = "[]"   -> [ok |-> TRUE, value |-> JList(<<>>), next |-> p + 1]
           [] toks[p] = "{}"   -> [ok |-> TRUE, value |-> JObj(<<>>), next |-> p + 1]
           [] toks[p] = "["    -> JsonParseItems(toks, p + 1, <<>>)
           [] toks[p] = "{"    -> JsonParsePairs(toks, p + 1, <<>>)
           [] OTHER            -> JsonFail
JsonParseItems(toks, p, acc) ==
    LET item == JsonParseValue(toks, p)
        q == SkipSpace(toks, item.next)
    IN  IF ~item.ok \/ q > Len(toks) THEN JsonFail
        ELSE IF toks[q] = "," THEN JsonParseItems(toks, q + 1, Append(acc, item.value))
        ELSE IF toks[q] = "]"
             THEN [ok |-> TRUE, value |-> JList(Append(acc, item.value)), next |-> q + 1]
        ELSE JsonFail
JsonParsePairs(toks, p0, acc) ==
    LET p == SkipSpace(toks, p0)
        key == IF p <= Len(toks) /\ toks[p] = "\"" THEN JsonParseString(toks, p) ELSE JsonFail
        colon == SkipSpace(toks, key.next)
        val == IF key.ok /\ Len(key.value.v) = 1 /\ colon <= Len(toks) /\ toks[colon] = ": "
               THEN JsonParseValue(toks, colon + 1) ELSE JsonFail
        q == SkipSpace(toks, val.next)
    IN  IF ~val.ok \/ q > Len(toks) THEN JsonFail
        ELSE IF toks[q] = ","
             THEN JsonParsePairs(toks, q + 1, DictSet(acc, key.value.v[1], val.value))
        ELSE IF toks[q] = "}"
             THEN [ok |-> TRUE, value |-> JObj(DictSet(acc, key.value.v[1], val.value)),
                   next |-> q + 1]
        ELSE JsonFail

\* the whole text is one JSON value
JsonParse(toks) ==
    LET r == JsonParseValue(toks, 1) IN
    IF r.ok /\ SkipSpace(toks, r.next) > Len(toks) THEN r ELSE JsonFail

\* a field declared `str`: present and a string
StrFieldOk(d, k) == HasKey(d, k) /\ DictGet(d, k, JNull).t = "str"

\* class Section(BaseModel): title: str, description: str
SectionShapeOk(j) ==
    /\ j.t = "obj"
    /\ StrFieldOk(j.v, "title")
    /\ StrFieldOk(j.v, "description")

\* mutant: the two fields of a section are exchanged
MakeSectionSwapped(j) ==
    [title |-> DictGet(j.v, "description", JNull).v,
     description |-> DictGet(j.v, "title", JNull).v]

MakeSection(j) ==
    [title |-> DictGet(j.v, "title", JNull).v,
     description |-> DictGet(j.v, "description", JNull).v]

\* class GuideOutline(BaseModel): the validation GuideOutline(**outline_dict) runs;
\* keys the model does not declare are ignored
OutlineShapeOk(d) ==
    /\ StrFieldOk(d, "title")
    /\ StrFieldOk(d, "introduction")
    /\ StrFieldOk(d, "target_audience")
    /\ HasKey(d, "sections")
    /\ DictGet(d, "sections", JNull).t = "list"
    /\ \A i \in 1..Len(DictGet(d, "sections", JNull).v) :
            SectionShapeOk(DictGet(d, "sections", JNull).v[i])
    /\ StrFieldOk(d, "conclusion")

MakeGuideOutline(d) ==
    [title |-> DictGet(d, "title", JNull).v,
     introduction |-> DictGet(d, "introduction", JNull).v,
     target_audience |-> DictGet(d, "target_audience", JNull).v,
     sections |-> [i \in 1..Len(DictGet(d, "sections", JNull).v) |->
                      MakeSection(DictGet(d, "sections", JNull).v[i])],
     conclusion |-> DictGet(d, "conclusion", JNull).v]

\* what a failed write may leave in a file opened with "w": a proper prefix of
\* the text. The model keeps the two extremes: nothing, and all but the last chunk.
PartialWrites(full) == { SubSeq(full, 1, k) : k \in {0, Len(full) - 1} }

-----------------------------------------------------------------------------
(* The state after GuideCreatorFlow() is constructed.                      *)

Init ==
    /\ pc = "start"
    /\ error = "none"
    /\ topic = <<>>
    /\ audience_level = <<>>
    /\ guide_outline = None
    /\ sections_content = <<>>
    /\ audience = <<>>
    /\ last_input = <<>>
    /\ reprompts = 0
    /\ started = <<>>
    /\ llm_calls = <<>>
    /\ outline_dict = JNull
    /\ outline = None
    /\ completed_sections = <<>>
    /\ idx = 1
    /\ guide_content = <<>>
    /\ calls = <<>>
    /\ authored = <<>>
    /\ output_dir \in BOOLEAN
    /\ outline_file = NoFile
    /\ guide_file = NoFile
    /\ guide_opens = 0
    /\ requests = <<>>
    /\ raised = <<>>
    /\ responses = <<>>
    /\ tasks = <<>>
    /\ tasks_store = <<>>

Abort(exc) == pc' = "aborted" /\ error' = exc

-----------------------------------------------------------------------------
(* Stage 1: get_user_input.                                                *)

\* self.state.topic = input(...)
ReadTopic ==
    /\ pc = "start"
    /\ UNCHANGED http_vars
    /\ \E t \in Topics : topic' = t
    /\ started' = Append(started, "get_user_input")
    /\ pc' = "audience"
    /\ UNCHANGED <<error, audience_level, guide_outline, sections_content,
                   audience, last_input, reprompts, llm_calls, outline_dict,
                   outline, completed_sections, idx, guide_content, calls,
                   authored, output_dir, outline_file, guide_file, guide_opens>>

\* mutant: the loop accepts whatever was typed
AcceptsAny(a) == TRUE

\* mutant: the loop accepts nothing
AcceptsNone(a) == FALSE

\* the test of the while-loop: audience in ["beginner", "intermediate", "advanced"]
Accepts(a) == a \in AudienceLevels

\* one pass of the while True loop: read, lower-case, accept or re-prompt
ReadAudience ==
    /\ pc = "audience"
    /\ UNCHANGED http_vars
    /\ \E inp \in AudienceInputs :
         /\ last_input' = inp
         /\ audience' = Lower(inp)
         /\ IF Accepts(Lower(inp))
            THEN /\ audience_level' = Lower(inp)
                 /\ pc' = "input_returned"
                 /\ UNCHANGED reprompts
            ELSE /\ reprompts < MaxReprompts
                 /\ reprompts' = reprompts + 1
                 /\ UNCHANGED <<audience_level, pc>>
    /\ UNCHANGED <<error, topic, guide_outline, sections_content, started,
                   llm_calls, outline_dict, outline, completed_sections, idx,
                   guide_content, calls, authored, output_dir, outline_file,
                   guide_file, guide_opens>>

-----------------------------------------------------------------------------
(* Stage 2: create_guide_outline, listening to get_user_input.             *)

\* the messages list built from state.topic and state.audience_level
Messages(t, level) ==
    << [role |-> "system",
        content |-> <<"You are a helpful assistant designed to output JSON.">>],
       [role |-> "user",
        content |-> <<"Create a detailed outline for a comprehensive guide on \"">>
                    \o t \o <<"\" for ">> \o level
                    \o <<" level learners. The outline should include: 1. A compelling title for the guide 2. An introduction to the topic 3. 4-6 main sections that cover the most important aspects of the topic 4. A conclusion or summary For each section, provide a clear title and a brief description of what it should cover.">>] >>

\* the stage starts and issues llm.call(messages=messages)
StartOutline ==
    /\ pc = "input_returned"
    /\ UNCHANGED http_vars
    /\ started' = Append(started, "create_guide_outline")
    /\ llm_calls' = Append(llm_calls, Messages(topic, audience_level))
    /\ pc' = "llm_call"
    /\ UNCHANGED <<error, topic, audience_level, guide_outline, sections_content,
                   audience, last_input, reprompts, outline_dict, outline,
                   completed_sections, idx, guide_content, calls, authored,
                   output_dir, outline_file, guide_file, guide_opens>>

\* mutant: the failed call is retried
LlmFailRetry ==
    /\ pc = "llm_call"
    /\ UNCHANGED http_vars
    /\ error' = "ModelInvocationError"
    /\ UNCHANGED <<pc, topic, audience_level, guide_outline, sections_content,
                   audience, last_input, reprompts, started, llm_calls,
                   outline_dict, outline, completed_sections, idx, guide_content,
                   calls, authored, output_dir, outline_file, guide_file,
                   guide_opens>>

\* llm.call raises
LlmFail ==
    /\ pc = "llm_call"
    /\ UNCHANGED http_vars
    /\ Abort("ModelInvocationError")
    /\ UNCHANGED <<topic, audience_level, guide_outline, sections_content,
                   audience, last_input, reprompts, started, llm_calls,
                   outline_dict, outline, completed_sections, idx, guide_content,
                   calls, authored, output_dir, outline_file, guide_file,
                   guide_opens>>

\* llm.call returns; json.loads; GuideOutline(**outline_dict) into the state
LlmReturn ==
    /\ pc = "llm_call"
    /\ UNCHANGED http_vars
    /\ \E response \in Responses :
         LET loaded == JsonLoads(response) IN
         IF ~loaded.ok
         THEN /\ Abort("JSONDecodeError")
              /\ UNCHANGED <<outline_dict, guide_outline>>
         ELSE /\ outline_dict' = loaded.value
              /\ IF loaded.value.t # "obj"
                 THEN Abort("TypeError") /\ UNCHANGED guide_outline
                 ELSE IF ~OutlineShapeOk(loaded.value.v)
                 THEN Abort("ValidationError") /\ UNCHANGED guide_outline
                 ELSE /\ guide_outline' = MakeGuideOutline(loaded.value.v)
                      /\ pc' = "makedirs"
                      /\ UNCHANGED error
    /\ UNCHANGED <<topic, audience_level, sections_content, audience, last_input,
                   reprompts, started, llm_calls, outline, completed_sections,
                   idx, guide_content, calls, authored, output_dir, outline_file,
                   guide_file, guide_opens>>

\* os.makedirs("output", exist_ok=True)
MakeDirs ==
    /\ pc = "makedirs"
    /\ UNCHANGED http_vars
    /\ \E ok \in BOOLEAN :
         IF ok THEN output_dir' = TRUE /\ pc' = "open_outline" /\ UNCHANGED error
         ELSE Abort("OSError") /\ UNCHANGED output_dir
    /\ UNCHANGED <<topic, audience_level, guide_outline, sections_content,
                   audience, last_input, reprompts, started, llm_calls,
                   outline_dict, outline, completed_sections, idx, guide_content,
                   calls, authored, outline_file, guide_file, guide_opens>>

\* open("output/guide_outline.json", "w")
OpenOutlineFile ==
    /\ pc = "open_outline"
    /\ UNCHANGED http_vars
    /\ \E ok \in BOOLEAN :
         IF ok
         THEN /\ outline_file' = [exists |-> TRUE, content |-> <<>>]
              /\ pc' = "dump_outline"
              /\ UNCHANGED error
         ELSE Abort("OSError") /\ UNCHANGED outline_file
    /\ UNCHANGED <<topic, audience_level, guide_outline, sections_content,
                   audience, last_input, reprompts, started, llm_calls,
                   outline_dict, outline, completed_sections, idx, guide_content,
                   calls, authored, output_dir, guide_file, guide_opens>>

\* json.dump(outline_dict, f, indent=2), the file is closed, and the stage
\* returns self.state.guide_outline
DumpOutline ==
    /\ pc = "dump_outline"
    /\ UNCHANGED http_vars
    /\ \/ /\ outline_file' = [exists |-> TRUE, content |-> JsonDump(outline_dict, 0)]
          /\ pc' = "outline_returned"
          /\ UNCHANGED error
       \/ /\ \E part \in PartialWrites(JsonDump(outline_dict, 0)) :
                outline_file' = [exists |-> TRUE, content |-> part]
          /\ Abort("OSError")
    /\ UNCHANGED <<topic, audience_level, guide_outline, sections_content,
                   audience, last_input, reprompts, started, llm_calls,
                   outline_dict, outline, completed_sections, idx, guide_content,
                   calls, authored, output_dir, guide_file, guide_opens>>

-----------------------------------------------------------------------------
(* Stage 3: write_and_compile_guide, listening to create_guide_outline.    *)

\* the stage starts with the value create_guide_outline returned
StartCompile ==
    /\ pc = "outline_returned"
    /\ UNCHANGED http_vars
    /\ started' = Append(started, "write_and_compile_guide")
    /\ outline' = guide_outline
    /\ completed_sections' = <<>>
    /\ idx' = 1
    /\ pc' = "loop"
    /\ UNCHANGED <<error, topic, audience_level, guide_outline, sections_content,
                   audience, last_input, reprompts, llm_calls, outline_dict,
                   guide_content, calls, authored, output_dir, outline_file,
                   guide_file, guide_opens>>

\* for title in completed_sections: "## {title}\n\n" + get(title, "") + "\n\n"
RECURSIVE RenderCompleted(_, _, _)
RenderCompleted(completed, content, i) ==
    IF i > Len(completed) THEN <<>>
    ELSE <<"## ">> \o completed[i] \o <<"\n\n">>
           \o DictGet(content, completed[i], <<>>) \o <<"\n\n">>
           \o RenderCompleted(completed, content, i + 1)

\* mutant: the empty case is not told apart
PreviousSectionsTextAlwaysHeader(completed, content) ==
    <<"# Previously Written Sections\n\n">> \o RenderCompleted(completed, content, 1)

\* previous_sections_text
PreviousSectionsText(completed, content) ==
    IF completed # <<>>
    THEN <<"# Previously Written Sections\n\n">> \o RenderCompleted(completed, content, 1)
    ELSE <<"No previous sections written yet.">>

\* mutant: the audience level is not passed on
KickoffInputsNoLevel(section, level, previous) ==
    [section_title |-> section.title,
     section_description |-> section.description,
     audience_level |-> <<>>,
     previous_sections |-> previous,
     draft_content |-> <<>>]

\* the inputs of ContentCrew().crew().kickoff
KickoffInputs(section, level, previous) ==
    [section_title |-> section.title,
     section_description |-> section.description,
     audience_level |-> level,
     previous_sections |-> previous,
     draft_content |-> <<>>]

\* mutant: the loop walks the sections backwards
LoopSectionsReversed(o) ==
    [i \in 1..Len(o.sections) |-> o.sections[Len(o.sections) + 1 - i]]

\* the sequence `for section in outline.sections` walks
LoopSections(o) == o.sections

\* one section: build the context and call the content crew
AuthorStart ==
    /\ pc = "loop"
    /\ UNCHANGED http_vars
    /\ idx <= Len(LoopSections(outline))
    /\ calls' = Append(calls,
                   KickoffInputs(LoopSections(outline)[idx], audience_level,
                       PreviousSectionsText(completed_sections, sections_content)))
    /\ pc' = "author"
    /\ UNCHANGED <<error, topic, audience_level, guide_outline, sections_content,
                   audience, last_input, reprompts, started, llm_calls,
                   outline_dict, outline, completed_sections, idx, guide_content,
                   authored, output_dir, outline_file, guide_file, guide_opens>>

\* mutant: the content is stored under the section's description
StoreContentByDescription(content, section, raw) ==
    DictSet(content, section.description, raw)

\* mutant: content already stored under the title is kept
StoreContentKeepFirst(content, section, raw) ==
    IF HasKey(content, section.title) THEN content
    ELSE DictSet(content, section.title, raw)

\* self.state.sections_content[section.title] = result.raw
StoreContent(content, section, raw) == DictSet(content, section.title, raw)

\* mutant: the content is also written into the outline's section
AuthorReturnIntoOutline ==
    /\ pc = "author"
    /\ UNCHANGED http_vars
    /\ \E raw \in AuthorResults :
         /\ authored' = Append(authored, raw)
         /\ sections_content' =
                StoreContent(sections_content, LoopSections(outline)[idx], raw)
         /\ outline' = [outline EXCEPT !.sections[idx].description = raw]
         /\ guide_outline' = [guide_outline EXCEPT !.sections[idx].description = raw]
    /\ completed_sections' =
           Append(completed_sections, LoopSections(outline)[idx].title)
    /\ idx' = idx + 1
    /\ pc' = "loop"
    /\ UNCHANGED <<error, topic, audience_level, audience,
                   last_input, reprompts, started, llm_calls, outline_dict,
                   guide_content, calls, output_dir, outline_file,
                   guide_file, guide_opens>>

\* the content crew returns: store the content, append the title
AuthorReturn ==
    /\ pc = "author"
    /\ UNCHANGED http_vars
    /\ \E raw \in AuthorResults :
         /\ authored' = Append(authored, raw)
         /\ sections_content' =
                StoreContent(sections_content, LoopSections(outline)[idx], raw)
    /\ completed_sections' =
           Append(completed_sections, LoopSections(outline)[idx].title)
    /\ idx' = idx + 1
    /\ pc' = "loop"
    /\ UNCHANGED <<error, topic, audience_level, guide_outline, audience,
                   last_input, reprompts, started, llm_calls, outline_dict,
                   outline, guide_content, calls, output_dir, outline_file,
                   guide_file, guide_opens>>

\* mutant: the failure is swallowed and the loop goes on to the next section
AuthorFailSwallowed ==
    /\ pc = "author"
    /\ UNCHANGED http_vars
    /\ error' = "ModelInvocationError"
    /\ completed_sections' =
           Append(completed_sections, LoopSections(outline)[idx].title)
    /\ idx' = idx + 1
    /\ pc' = "loop"
    /\ UNCHANGED <<topic, audience_level, guide_outline, sections_content,
                   audience, last_input, reprompts, started, llm_calls,
                   outline_dict, outline, guide_content, calls, authored,
                   output_dir, outline_file, guide_file, guide_opens>>

\* mutant: on a failure the outline file is removed
AuthorFailRollsBack ==
    /\ pc = "author"
    /\ UNCHANGED http_vars
    /\ Abort("ModelInvocationError")
    /\ outline_file' = NoFile
    /\ UNCHANGED <<topic, audience_level, guide_outline, sections_content,
                   audience, last_input, reprompts, started, llm_calls,
                   outline_dict, outline, completed_sections, idx, guide_content,
                   calls, authored, output_dir, guide_file, guide_opens>>

\* the content crew raises
AuthorFail ==
    /\ pc = "author"
    /\ UNCHANGED http_vars
    /\ Abort("ModelInvocationError")
    /\ UNCHANGED <<topic, audience_level, guide_outline, sections_content,
                   audience, last_input, reprompts, started, llm_calls,
                   outline_dict, outline, completed_sections, idx, guide_content,
                   calls, authored, output_dir, outline_file, guide_file,
                   guide_opens>>

\* mutant: every body is put under a heading with the section's title
RECURSIVE SectionBlocksWithTitle(_, _, _)
SectionBlocksWithTitle(secs, content, i) ==
    IF i > Len(secs) THEN <<>>
    ELSE <<"## ">> \o secs[i].title \o <<"\n\n">>
           \o DictGet(content, secs[i].title, <<>>) \o <<"\n\n">>
           \o SectionBlocksWithTitle(secs, content, i + 1)

\* for section in outline.sections: guide_content += "\n\n{section_content}\n\n"
RECURSIVE SectionBlocks(_, _, _)
SectionBlocks(secs, content, i) ==
    IF i > Len(secs) THEN <<>>
    ELSE <<"\n\n">> \o DictGet(content, secs[i].title, <<>>) \o <<"\n\n">>
           \o SectionBlocks(secs, content, i + 1)

\* mutant: the bodies are taken in the reverse of the outline's order
RECURSIVE SectionBlocksBackwards(_, _, _)
SectionBlocksBackwards(secs, content, i) ==
    IF i < 1 THEN <<>>
    ELSE <<"\n\n">> \o DictGet(content, secs[i].title, <<>>) \o <<"\n\n">>
           \o SectionBlocksBackwards(secs, content, i - 1)

CompileGuideBackwards(o, content) ==
    <<"# ">> \o o.title \o <<"\n\n">>
      \o <<"## Introduction\n\n">> \o o.introduction \o <<"\n\n">>
      \o SectionBlocksBackwards(o.sections, content, Len(o.sections))
      \o <<"## Conclusion\n\n">> \o o.conclusion \o <<"\n\n">>

\* guide_content as compiled after the section loop
CompileGuide(o, content) ==
    <<"# ">> \o o.title \o <<"\n\n">>
      \o <<"## Introduction\n\n">> \o o.introduction \o <<"\n\n">>
      \o SectionBlocks(o.sections, content, 1)
      \o <<"## Conclusion\n\n">> \o o.conclusion \o <<"\n\n">>

\* the section loop is over: compile the guide and open("output/complete_guide.md", "w")
OpenGuideFile ==
    /\ pc = "loop"
    /\ UNCHANGED http_vars
    /\ idx > Len(LoopSections(outline))
    /\ guide_content' = CompileGuide(outline, sections_content)
    /\ \E ok \in BOOLEAN :
         IF ok
         THEN /\ guide_file' = [exists |-> TRUE, content |-> <<>>]
              /\ guide_opens' = guide_opens + 1
              /\ pc' = "write_guide"
              /\ UNCHANGED error
         ELSE Abort("OSError") /\ UNCHANGED <<guide_file, guide_opens>>
    /\ UNCHANGED <<topic, audience_level, guide_outline, sections_content,
                   audience, last_input, reprompts, started, llm_calls,
                   outline_dict, outline, completed_sections, idx, calls,
                   authored, output_dir, outline_file>>

\* f.write(guide_content), the file is closed, and the stage returns
WriteGuide ==
    /\ pc = "write_guide"
    /\ UNCHANGED http_vars
    /\ \/ /\ guide_file' = [exists |-> TRUE, content |-> guide_content]
          /\ pc' = "done"
          /\ UNCHANGED error
       \/ /\ \E part \in PartialWrites(guide_content) :
                guide_file' = [exists |-> TRUE, content |-> part]
          /\ Abort("OSError")
    /\ UNCHANGED <<topic, audience_level, guide_outline, sections_content,
                   audience, last_input, reprompts, started, llm_calls,
                   outline_dict, outline, completed_sections, idx, guide_content,
                   calls, authored, output_dir, outline_file, guide_opens>>

-----------------------------------------------------------------------------
(* GuideCreatorFlow().kickoff(): one run of the flow.                      *)

Next ==
    \/ ReadTopic
    \/ ReadAudience
    \/ StartOutline
    \/ LlmFail
    \/ LlmReturn
    \/ MakeDirs
    \/ OpenOutlineFile
    \/ DumpOutline
    \/ StartCompile
    \/ AuthorStart
    \/ AuthorReturn
    \/ AuthorFail
    \/ OpenGuideFile
    \/ WriteGuide

Spec == Init /\ [][Next]_vars

-----------------------------------------------------------------------------
(* A run in which every external call returns: llm.call and the content    *)
(* crew return a result, makedirs, open and the writes succeed.  input()   *)
(* returns what the user typed, and the user types a valid level in the    *)
(* end.                                                                    *)

MakeDirsReturns == MakeDirs /\ pc' # "aborted"

OpenOutlineFileReturns == OpenOutlineFile /\ pc' # "aborted"

DumpOutlineReturns == DumpOutline /\ pc' # "aborted"

OpenGuideFileReturns == OpenGuideFile /\ pc' # "aborted"

WriteGuideReturns == WriteGuide /\ pc' # "aborted"

\* the pass of the while True loop that reads a valid level
AudienceAccepted == ReadAudience /\ pc' = "input_returned"

NextReturning ==
    \/ ReadTopic
    \/ ReadAudience
    \/ StartOutline
    \/ LlmReturn
    \/ MakeDirsReturns
    \/ OpenOutlineFileReturns
    \/ DumpOutlineReturns
    \/ StartCompile
    \/ AuthorStart
    \/ AuthorReturn
    \/ OpenGuideFileReturns
    \/ WriteGuideReturns

SpecReturning ==
    /\ Init
    /\ [][NextReturning]_vars
    /\ WF_vars(NextReturning)
    /\ SF_vars(AudienceAccepted)

-----------------------------------------------------------------------------
(* The HTTP trigger (guide_creator_flow/server.py): POST /create-guide.    *)

\* request bodies: topic and target_audience are free strings
RequestJson(t, a) == JObj(<< <<"topic", JStr(t)>>, <<"target_audience", JStr(a)>> >>)

RequestBodies ==
    { RequestJson(t, a) : t \in Topics, a \in { <<"beginner">>, <<"Gardeners">> } }
        \cup { JObj(<< <<"topic", JStr(<<"Home Gardening">>)>> >>) }

\* class GuideRequest(BaseModel): topic: str, target_audience: str
RequestShapeOk(body) ==
    /\ body.t = "obj"
    /\ StrFieldOk(body.v, "topic")
    /\ StrFieldOk(body.v, "target_audience")

MakeGuideRequest(body) ==
    [topic |-> DictGet(body.v, "topic", JNull).v,
     target_audience |-> DictGet(body.v, "target_audience", JNull).v]

\* what the try block of create_guide may raise: nothing, or an exception at
\* one of its three statements, with its message
NoException == [at |-> "none", message |-> <<>>]

SetupOutcomes ==
    { NoException,
      [at |-> "ContentCrew", message |-> <<"agents.yaml not found">>],
      [at |-> "GuideOutline", message |-> <<"validation error for GuideOutline">>],
      [at |-> "add_task", message |-> <<>>] }

\* mutant: the crew fills the outline before the task is added
RequestOutlineFilled(request) ==
    [title |-> <<"Comprehensive Guide to ">> \o request.topic,
     introduction |-> <<"Intro text">>,
     target_audience |-> request.target_audience,
     sections |-> << [title |-> <<"Tools">>, description |-> <<"What to buy">>] >>,
     conclusion |-> <<>>]

\* the outline create_guide builds
RequestOutline(request) ==
    [title |-> <<"Comprehensive Guide to ">> \o request.topic,
     introduction |-> <<>>,
     target_audience |-> request.target_audience,
     sections |-> <<>>,
     conclusion |-> <<>>]

\* mutant: the handler runs the task before it returns
BackgroundTaskAwaited(n, o) ==
    [request |-> n, func |-> "crew.run", outline |-> o, status |-> "succeeded"]

\* background_tasks.add_task(crew.run, outline), for the n-th request
BackgroundTask(n, o) ==
    [request |-> n, func |-> "crew.run", outline |-> o, status |-> "scheduled"]

\* the dict create_guide returns
Acknowledgement(request) ==
    [status |-> 200,
     body |-> [status |-> <<"Guide creation task started successfully">>,
               topic |-> request.topic,
               target_audience |-> request.target_audience]]

\* mutant: the error response hides the exception's message
ErrorResponseGeneric(exc) ==
    [status |-> 500, body |-> [detail |-> <<"Internal Server Error">>]]

\* raise HTTPException(status_code=500, detail=str(e))
ErrorResponse(exc) == [status |-> 500, body |-> [detail |-> exc.message]]

\* the framework's answer to a body that is no GuideRequest; the handler does not run
UnprocessableResponse == [status |-> 422, body |-> [detail |-> <<"validation error">>]]

\* one POST /create-guide: the body is validated, create_guide runs to its
\* return or its except clause, and the response is sent
CreateGuide ==
    /\ Len(requests) < MaxRequests
    /\ \E body \in RequestBodies :
         /\ requests' = Append(requests, body)
         /\ IF ~RequestShapeOk(body)
            THEN /\ raised' = Append(raised, NoException)
                 /\ responses' = Append(responses, UnprocessableResponse)
                 /\ UNCHANGED tasks
            ELSE \E exc \in SetupOutcomes :
                   /\ raised' = Append(raised, exc)
                   /\ IF exc = NoException
                      THEN /\ tasks' = Append(tasks,
                                  BackgroundTask(Len(requests) + 1,
                                      RequestOutline(MakeGuideRequest(body))))
                           /\ responses' =
                                  Append(responses, Acknowledgement(MakeGuideRequest(body)))
                      ELSE /\ UNCHANGED tasks
                           /\ responses' = Append(responses, ErrorResponse(exc))
    /\ UNCHANGED <<tasks_store, flow_vars>>

\* after the response is sent the framework runs a task that was added; what
\* it returns or raises goes nowhere
RunBackgroundTask ==
    /\ \E i \in 1..Len(tasks) :
         /\ tasks[i].status = "scheduled"
         /\ \E outcome \in {"succeeded", "failed"} :
              tasks' = [tasks EXCEPT ![i].status = outcome]
    /\ UNCHANGED <<requests, raised, responses, tasks_store, flow_vars>>

NextHttp ==
    \/ CreateGuide
    \/ RunBackgroundTask

SpecHttp == Init /\ [][NextHttp]_vars

-----------------------------------------------------------------------------
(* Notions the properties below share.                                     *)

StageOrder == <<"get_user_input", "create_guide_outline", "write_and_compile_guide">>

CompileStarted == Len(started) = 3

\* the section loop of write_and_compile_guide has run to its end
LoopFinished ==
    \/ pc \in {"write_guide", "done"}
    \/ pc = "loop" /\ idx > Len(outline.sections)

\* the last section of the outline, among the first n, that carries the title of section j
LastWithTitle(j, n) ==
    CHOOSE k \in 1..n :
        /\ outline.sections[k].title = outline.sections[j].title
        /\ \A m \in (k + 1)..n : outline.sections[m].title # outline.sections[j].title

TitlesDistinct ==
    \A i, j \in 1..Len(outline.sections) :
        outline.sections[i].title = outline.sections[j].title => i = j

-----------------------------------------------------------------------------
\* C1: in write_and_compile_guide the author capability is invoked once per
\* section, in outline order (the i-th invocation carries the title and the
\* description of the i-th section), never outside the stage, never more than K
\* times, with at most one invocation in flight (an invocation starts only when
\* every earlier one has returned), and exactly K times once the loop is over.
C1_AuthorOncePerSectionInOrder ==
    /\ ~CompileStarted => calls = <<>> /\ authored = <<>>
    /\ CompileStarted =>
         /\ Len(calls) <= Len(outline.sections)
         /\ \A i \in 1..Len(calls) :
                /\ calls[i].section_title = outline.sections[i].title
                /\ calls[i].section_description = outline.sections[i].description
         /\ Len(calls) - Len(authored) \in {0, 1}
         /\ Len(calls) - Len(authored) = 1 <=> pc = "author" \/ error = "ModelInvocationError"
         /\ LoopFinished =>
                Len(calls) = Len(outline.sections) /\ Len(authored) = Len(calls)

C1_Witness ==
    /\ pc = "done"
    /\ Len(outline.sections) >= 2
    /\ outline.sections[1] # outline.sections[2]
    /\ Len(calls) = Len(outline.sections)

-----------------------------------------------------------------------------
RECURSIVE ExpectedContextBlocks(_, _)
ExpectedContextBlocks(i, k) ==
    IF k >= i THEN <<>>
    ELSE <<"## ">> \o outline.sections[k].title \o <<"\n\n">>
           \o authored[LastWithTitle(k, i - 1)] \o <<"\n\n">>
           \o ExpectedContextBlocks(i, k + 1)

\* C2: the previous-sections context of the i-th author invocation is the
\* sentence "No previous sections written yet." when i = 1, and otherwise the
\* header followed, for sections 1..i-1 in that order, by the title and the
\* content stored under that title when the invocation starts.
C2_PreviousSectionsContext ==
    \A i \in 1..Len(calls) :
        calls[i].previous_sections =
            IF i = 1 THEN <<"No previous sections written yet.">>
            ELSE <<"# Previously Written Sections\n\n">> \o ExpectedContextBlocks(i, 1)

C2_Witness ==
    /\ Len(calls) >= 3
    /\ authored[1] # authored[2]
    /\ outline.sections[1].title # outline.sections[2].title

-----------------------------------------------------------------------------
\* the part of the written document between the introduction and the conclusion
SectionPart(doc) ==
    SubSeq(doc, Len(outline.title) + Len(outline.introduction) + 5,
                Len(doc) - (Len(outline.conclusion) + 2))

RECURSIVE BodiesAsAuthored(_)
BodiesAsAuthored(j) ==
    IF j > Len(outline.sections) THEN <<>>
    ELSE <<"\n\n">> \o authored[j] \o <<"\n\n">> \o BodiesAsAuthored(j + 1)

RECURSIVE BodiesLastStored(_)
BodiesLastStored(j) ==
    IF j > Len(outline.sections) THEN <<>>
    ELSE <<"\n\n">> \o authored[LastWithTitle(j, Len(outline.sections))] \o <<"\n\n">>
           \o BodiesLastStored(j + 1)

\* C3 as stated: the j-th body of the final document is the content authored
\* for the j-th section, for every outline.
C3_Original ==
    pc = "done" => SectionPart(guide_file.content) = BodiesAsAuthored(1)

\* C3 as amended: the j-th body of the final document is the content authored
\* for the last section of the outline that carries the j-th section's title;
\* with pairwise distinct titles that is the content authored for section j.
C3_BodiesInOutlineOrder ==
    pc = "done" =>
        /\ SectionPart(guide_file.content) = BodiesLastStored(1)
        /\ TitlesDistinct => SectionPart(guide_file.content) = BodiesAsAuthored(1)

C3_Witness ==
    /\ pc = "done"
    /\ Len(outline.sections) >= 2
    /\ TitlesDistinct
    /\ authored[1] # authored[2]

-----------------------------------------------------------------------------
OutlineTitles ==
    IF guide_outline = None THEN {}
    ELSE { guide_outline.sections[i].title : i \in 1..Len(guide_outline.sections) }

\* C4: the keys of sections_content are always titles of the current outline's
\* sections (none while no outline is set), and when the final-assembly loop
\* reads, every section title of the outline has an entry, so that the lookup
\* never falls back to its default.
C4_ContentKeysAreOutlineTitles ==
    /\ DictKeys(sections_content) \subseteq OutlineTitles
    /\ (CompileStarted /\ LoopFinished) =>
          \A j \in 1..Len(outline.sections) :
              HasKey(sections_content, outline.sections[j].title)

C4_Witness ==
    /\ pc = "loop"
    /\ idx > Len(outline.sections)
    /\ Len(outline.sections) >= 2
    /\ Len(sections_content) >= 2

-----------------------------------------------------------------------------
Chunks(text) == { text[i] : i \in 1..Len(text) }

AuthoredChunks == UNION { Chunks(authored[i]) : i \in 1..Len(authored) }

AuthorFailed == CompileStarted /\ error = "ModelInvocationError"

\* C5: complete_guide.md is opened for writing at most once in a run, and only
\* when every section's author invocation has returned; when an author
\* invocation fails, the run is aborted, complete_guide.md does not exist, and
\* no file holds any of the content authored before the failure.
C5_GuideWrittenOnceAfterAllAuthored ==
    /\ guide_opens <= 1
    /\ (guide_file.exists \/ guide_opens > 0) =>
          /\ error # "ModelInvocationError"
          /\ Len(authored) = Len(outline.sections)
          /\ Len(calls) = Len(authored)
    /\ AuthorFailed =>
          /\ pc = "aborted"
          /\ ~guide_file.exists
          /\ guide_opens = 0
          /\ AuthoredChunks \cap
                (Chunks(outline_file.content) \cup Chunks(guide_file.content)) = {}

C5_Witness ==
    /\ AuthorFailed
    /\ Len(outline.sections) = 3
    /\ Len(calls) = 2
    /\ Len(authored) = 1

-----------------------------------------------------------------------------
UpperOf(c) ==
    IF \E i \in 1..Len(LowerLetters) : LowerLetters[i] = c
    THEN UpperLetters[CHOOSE i \in 1..Len(LowerLetters) : LowerLetters[i] = c]
    ELSE c

\* text that spells one of the three levels in any mix of upper and lower case
SpellsLevel(text) ==
    \E level \in AudienceLevels :
        /\ Len(text) = Len(level)
        /\ \A i \in 1..Len(level) : text[i] \in {level[i], UpperOf(level[i])}

InputReturned == pc \notin {"start", "audience"}

\* C6: an audience input that does not spell beginner, intermediate or advanced
\* (in any case) is rejected and the prompt repeated; one that does is accepted
\* at once; and get_user_input returns only with the accepted value, lower-cased,
\* stored in state.audience_level (which is empty until then).
C6_AudienceValidation ==
    /\ (pc = "audience" /\ reprompts > 0) => ~SpellsLevel(last_input)
    /\ pc \in {"start", "audience"} => audience_level = <<>>
    /\ InputReturned =>
          /\ SpellsLevel(last_input)
          /\ audience_level \in AudienceLevels
          /\ Len(audience_level) = Len(last_input)
          /\ \A i \in 1..Len(last_input) :
                last_input[i] \in {audience_level[i], UpperOf(audience_level[i])}

C6_Witness ==
    /\ pc = "input_returned"
    /\ reprompts = 1
    /\ last_input = <<"A","D","V","A","N","C","E","D">>
    /\ audience_level = <<"a","d","v","a","n","c","e","d">>

-----------------------------------------------------------------------------
\* C7: the stages start in the order get_user_input, create_guide_outline,
\* write_and_compile_guide, each at most once; create_guide_outline starts only
\* when get_user_input has returned with a valid audience level; an author
\* invocation happens only when the outline is in the state and the outline
\* file holds the dumped outline; and the compiler works on the outline the
\* outline stage put into the state.
C7_StagesInOrder ==
    /\ Len(started) <= 3
    /\ \A i \in 1..Len(started) : started[i] = StageOrder[i]
    /\ Len(started) >= 2 => InputReturned /\ audience_level \in AudienceLevels
    /\ Len(llm_calls) <= 1
    /\ calls # <<>> =>
          /\ CompileStarted
          /\ guide_outline # None
          /\ outline_file = [exists |-> TRUE, content |-> JsonDump(outline_dict, 0)]
    /\ CompileStarted =>
          /\ outline = guide_outline
          /\ outline = MakeGuideOutline(outline_dict.v)

C7_Witness ==
    /\ pc = "author"
    /\ Len(calls) = 1
    /\ reprompts >= 1

-----------------------------------------------------------------------------
OutlineStageFailed ==
    /\ Len(started) = 2
    /\ error \in {"ModelInvocationError", "JSONDecodeError", "TypeError", "ValidationError"}

\* C8: when the completion call raises, or its text is not JSON, or the JSON
\* does not have the GuideOutline shape, the run is aborted: the completion was
\* called once, state.guide_outline is unset, the outline file does not exist,
\* the third stage has not started and no author invocation was made.
C8_OutlineFailureAborts ==
    /\ OutlineStageFailed =>
          /\ pc = "aborted"
          /\ Len(llm_calls) = 1
          /\ guide_outline = None
          /\ ~outline_file.exists
          /\ ~CompileStarted
          /\ calls = <<>>
    /\ (Len(started) >= 2 /\ guide_outline = None) => pc \in {"llm_call", "aborted"}

C8_Witness ==
    /\ OutlineStageFailed
    /\ error = "ValidationError"
    /\ outline_dict # JNull

-----------------------------------------------------------------------------
OutlineStageDone == pc = "outline_returned" \/ CompileStarted

\* the string the response gives for key k
ResponseField(k, text) == \E i \in 1..Len(outline_dict.v) : outline_dict.v[i] = <<k, JStr(text)>>

ResponseSections ==
    (CHOOSE p \in Chunks(outline_dict.v) : p[1] = "sections")[2].v

\* C9 as stated: when create_guide_outline has completed, the outline in the
\* state has a non-empty sections sequence.
C9_Original ==
    OutlineStageDone => guide_outline # None /\ Len(guide_outline.sections) > 0

\* C9 as amended: when create_guide_outline has completed, state.guide_outline
\* is set and carries the response's title, introduction, target audience and
\* conclusion and, in the response's order, the title and description of each
\* of its sections; the sections sequence may be empty.
C9_OutlinePopulated ==
    OutlineStageDone =>
        /\ guide_outline # None
        /\ ResponseField("title", guide_outline.title)
        /\ ResponseField("introduction", guide_outline.introduction)
        /\ ResponseField("target_audience", guide_outline.target_audience)
        /\ ResponseField("conclusion", guide_outline.conclusion)
        /\ Len(guide_outline.sections) = Len(ResponseSections)
        /\ \A i \in 1..Len(ResponseSections) :
              ResponseSections[i] = SectionJson(guide_outline.sections[i])

C9_Witness ==
    /\ pc = "outline_returned"
    /\ guide_outline # None
    /\ Len(guide_outline.sections) = 0

-----------------------------------------------------------------------------
\* C10: the written document is the title heading, the introduction under the
\* Introduction heading, then for every section in outline order the stored
\* content between blank lines and without any title, then the conclusion under
\* the Conclusion heading; with no sections it is the title, introduction and
\* conclusion blocks alone and the author capability was never invoked.
C10_DocumentAssembly ==
    pc = "done" =>
        /\ guide_file.exists
        /\ guide_file.content =
              <<"# ">> \o guide_outline.title \o <<"\n\n", "## Introduction\n\n">>
                \o guide_outline.introduction \o <<"\n\n">>
                \o BodiesLastStored(1)
                \o <<"## Conclusion\n\n">> \o guide_outline.conclusion \o <<"\n\n">>
        /\ Len(guide_outline.sections) = 0 =>
              /\ calls = <<>>
              /\ guide_file.content =
                    <<"# ">> \o guide_outline.title \o <<"\n\n", "## Introduction\n\n">>
                      \o guide_outline.introduction
                      \o <<"\n\n", "## Conclusion\n\n">>
                      \o guide_outline.conclusion \o <<"\n\n">>

C10_Witness ==
    /\ pc = "done"
    /\ Len(guide_outline.sections) = 0
    /\ guide_file.content # <<>>

-----------------------------------------------------------------------------
\* the n-th request passed validation and its try block raised nothing
SetupSucceeded(n) == RequestShapeOk(requests[n]) /\ raised[n] = NoException

TasksOf(n) == { i \in 1..Len(tasks) : tasks[i].request = n }

C11_Handled ==
    /\ started = <<>> /\ llm_calls = <<>> /\ guide_outline = None
    /\ \A n \in 1..Len(requests) :
          SetupSucceeded(n) =>
             /\ Cardinality(TasksOf(n)) = 1
             /\ \A i \in TasksOf(n) :
                   /\ tasks[i].outline.sections = <<>>
                   /\ tasks[i].outline.introduction = <<>>
                   /\ tasks[i].outline.conclusion = <<>>
             /\ responses[n].status = 200
             /\ DOMAIN responses[n].body = {"status", "topic", "target_audience"}
             /\ requests[n] = RequestJson(responses[n].body.topic,
                                          responses[n].body.target_audience)

C11_Returned ==
    \A n \in 1..Len(requests') :
        (n > Len(requests) /\ RequestShapeOk(requests'[n]) /\ raised'[n] = NoException) =>
            /\ Len(responses') = n
            /\ \A i \in 1..Len(tasks') :
                  tasks'[i].request = n => tasks'[i].status = "scheduled"

\* C11: for every request to POST /create-guide whose setup raises nothing, the
\* Outline Generator is never invoked, exactly one background task is added,
\* against an outline with no sections and empty introduction and conclusion,
\* and the response is the acknowledgement {status, topic, target_audience} of
\* the request, sent while that task has not yet run and carrying nothing
\* about the task's completion.
C11_AcknowledgedWithoutWaiting == []C11_Handled /\ [][C11_Returned]_vars

C11_Witness ==
    /\ Len(requests) = 2
    /\ SetupSucceeded(1)
    /\ SetupSucceeded(2)
    /\ tasks[1].status = "succeeded"
    /\ tasks[2].status = "scheduled"

-----------------------------------------------------------------------------
C12_Converted ==
    /\ tasks_store = <<>>
    /\ \A n \in 1..Len(requests) :
          raised[n] # NoException =>
             /\ responses[n].status = 500
             /\ responses[n].body = [detail |-> raised[n].message]
             /\ TasksOf(n) = {}

C12_ResponsesKept ==
    /\ tasks_store' = tasks_store
    /\ \A n \in 1..Len(responses) :
          Len(responses') >= n /\ responses'[n] = responses[n]

\* C12: an exception raised in create_guide's try block (constructing the crew,
\* building the outline, adding the task) becomes a response of status 500
\* carrying the exception's message, with no background task added and no
\* acknowledgement; and a response once sent never changes, whatever a
\* background task does afterwards, whose failure is recorded nowhere.
C12_SetupErrorsBecome500 == []C12_Converted /\ [][C12_ResponsesKept]_vars

C12_Witness ==
    /\ Len(requests) = 2
    /\ raised[1] = NoException
    /\ responses[1].status = 200
    /\ tasks # <<>>
    /\ tasks[1].status = "failed"
    /\ raised[2].at = "ContentCrew"
    /\ responses[2].status = 500

-----------------------------------------------------------------------------
OutlineFileWritten ==
    outline_file = [exists |-> TRUE, content |-> JsonDump(outline_dict, 0)]

GuideFileWritten ==
    guide_file = [exists |-> TRUE, content |-> CompileGuide(outline, sections_content)]

RunCompleted == pc = "done" /\ OutlineFileWritten /\ GuideFileWritten

\* the completion returned text that is not JSON of the GuideOutline shape
ResponseRejected ==
    /\ pc = "aborted"
    /\ Len(started) = 2
    /\ error \in {"JSONDecodeError", "TypeError", "ValidationError"}

\* C13 as stated: when every external call returns and the user enters a valid
\* level in the end, a run that has ended has written the outline file and
\* the final document.
C13_Original == pc \in {"done", "aborted"} => RunCompleted

\* the pass of the loop that reads an invalid level and prompts again
Reprompt == ReadAudience /\ pc' = "audience"

C13_Reprompting ==
    (pc = "audience" /\ pc' = "audience") =>
        /\ ~SpellsLevel(last_input')
        /\ reprompts' = reprompts + 1
        /\ error' = "none"

\* C13 as amended: when every external call returns, the completion's text is
\* JSON of the GuideOutline shape and the user enters a valid level in the
\* end, the run ends having written the outline file and then the final
\* document (and when the text is not of that shape, it ends aborted by that
\* text); while the levels entered are invalid the collector prompts again,
\* with no bound of its own on the number of retries, and is in no error state.
C13_Terminates ==
    /\ <>(RunCompleted \/ ResponseRejected)
    /\ [](guide_file.exists => OutlineFileWritten)
    /\ [](pc = "audience" => error = "none")
    /\ []((pc = "audience" /\ reprompts < MaxReprompts) => ENABLED Reprompt)
    /\ [][C13_Reprompting]_vars

C13_Witness ==
    /\ RunCompleted
    /\ reprompts = MaxReprompts
    /\ Len(outline.sections) >= 2

-----------------------------------------------------------------------------
\* C14: once create_guide_outline has completed, parsing the text of the
\* outline file as JSON and validating it as a GuideOutline gives an outline
\* equal to state.guide_outline.
C14_OutlineFileRoundTrip ==
    OutlineStageDone =>
        LET reread == JsonParse(outline_file.content) IN
        /\ reread.ok
        /\ reread.value.t = "obj"
        /\ OutlineShapeOk(reread.value.v)
        /\ MakeGuideOutline(reread.value.v) = guide_outline

C14_Witness ==
    /\ pc = "outline_returned"
    /\ Len(guide_outline.sections) >= 2
    /\ guide_outline.sections[1] # guide_outline.sections[2]
    /\ JsonParse(outline_file.content).ok

-----------------------------------------------------------------------------
\* sections i < j of the outline carry the same title
SameTitle(i, j) == i < j /\ outline.sections[i].title = outline.sections[j].title

EntriesFor(title) == { k \in 1..Len(sections_content) : sections_content[k][1] = title }

\* the chunk of the context of invocation m that follows the heading of section k
ContextBody(m, k) ==
    LET before == Len(<<"# Previously Written Sections\n\n">>)
                    + Len(RenderCompleted(
                            [n \in 1..(k - 1) |-> outline.sections[n].title],
                            sections_content, 1))
    IN SubSeq(calls[m].previous_sections,
              before + 2 + Len(outline.sections[k].title) + 1,
              before + 2 + Len(outline.sections[k].title)
                     + Len(DictGet(sections_content, outline.sections[k].title, <<>>)))

-----------------------------------------------------------------------------
C16_StepKeepsInputs ==
    /\ (CompileStarted \/ CompileStarted') =>
          /\ topic' = topic
          /\ audience_level' = audience_level
          /\ guide_outline' = guide_outline
          /\ outline' = (IF CompileStarted THEN outline ELSE guide_outline)
    /\ guide_outline # None => guide_outline' = guide_outline
    /\ sections_content' # sections_content => CompileStarted /\ pc = "author"

\* C16: no step of write_and_compile_guide changes topic, audience_level or
\* the outline (the parameter and state.guide_outline, with every field and
\* the order and contents of the sections); of the state it changes only
\* sections_content; and the outline, once set by the outline stage, is never
\* changed again.
C16_CompilerLeavesOutlineAlone == [][C16_StepKeepsInputs]_vars

C16_Witness ==
    /\ pc = "done"
    /\ Len(sections_content) >= 2
    /\ topic # <<>>
    /\ outline = guide_outline
    /\ outline = MakeGuideOutline(outline_dict.v)

-----------------------------------------------------------------------------
\* C17: every author invocation of a run is given the audience level the
\* collector accepted: the lower-cased spelling of what was typed, one of
\* beginner, intermediate and advanced, and the same for all invocations.
C17_AuthorAudienceLevel ==
    \A i \in 1..Len(calls) :
        /\ calls[i].audience_level \in AudienceLevels
        /\ calls[i].audience_level = audience_level
        /\ Len(calls[i].audience_level) = Len(last_input)
        /\ \A c \in 1..Len(last_input) :
              last_input[c] \in {calls[i].audience_level[c], UpperOf(calls[i].audience_level[c])}
        /\ \A j \in 1..Len(calls) : calls[j].audience_level = calls[i].audience_level

C17_Witness ==
    /\ Len(calls) >= 2
    /\ last_input = <<"B","e","g","i","n","n","e","r">>
    /\ calls[2].audience_level = <<"b","e","g","i","n","n","e","r">>

-----------------------------------------------------------------------------
CompilerAborted == CompileStarted /\ pc = "aborted"

\* a failure of makedirs, of the open or of the dump of the outline file
OutlineWriteFailed == Len(started) = 2 /\ error = "OSError"

IsProperPrefix(part, full) ==
    Len(part) < Len(full) /\ part = SubSeq(full, 1, Len(part))

\* C18 as stated: the outline file is written before the first author
\* invocation and stays; a run aborted in the Section Compiler ends with the
\* outline file present and complete_guide.md absent; a failed write of the
\* outline file aborts the run with the outline set and no author invocation.
C18_Original ==
    /\ (calls # <<>> \/ CompileStarted) => OutlineFileWritten
    /\ CompilerAborted => OutlineFileWritten /\ ~guide_file.exists
    /\ OutlineWriteFailed => pc = "aborted" /\ guide_outline # None /\ calls = <<>>

\* C18 as amended: as stated, except that a run aborted in the Section
\* Compiler ends without a complete final document: complete_guide.md is
\* absent when an author invocation or the open of the file failed, and
\* exists, holding a proper prefix of the document (possibly nothing), when
\* the write into the opened file failed.
C18_OutlineFileKept ==
    /\ (calls # <<>> \/ CompileStarted) => OutlineFileWritten
    /\ CompilerAborted =>
          /\ OutlineFileWritten
          /\ guide_opens = 0 => ~guide_file.exists
          /\ guide_opens > 0 =>
                /\ error = "OSError"
                /\ guide_file.exists
                /\ IsProperPrefix(guide_file.content, guide_content)
    /\ OutlineWriteFailed => pc = "aborted" /\ guide_outline # None /\ calls = <<>>

C18_Witness ==
    /\ CompilerAborted
    /\ error = "OSError"
    /\ guide_opens = 1
    /\ guide_file.exists
    /\ Len(authored) >= 1

====
